---------------------------- MODULE Spec2Model ----------------------------
(***************************************************************************)
(* A model of the Solana program listener: the discriminator classifier,  *)
(* the hand-rolled Poll layout decoder, the stream consumer with its       *)
(* fire-and-forget persistence hand-off, the upsert, and the shutdown      *)
(* protocol of main.                                                       *)
(*                                                                         *)
(* Representation of data:                                                 *)
(*  - a byte buffer (&[u8], Vec<u8>, [u8; N]) is a sequence over 0..255;   *)
(*  - a String is the sequence of its UTF-8 bytes;                         *)
(*  - a u64 is the tuple of its 8 base-256 digits, most significant       *)
(*    first (TLC integers are 32 bits wide, a u64 does not fit in one);     *)
(*  - an i64 is the same tuple with its first digit in -128..127            *)
(*    (two's complement);                                                  *)
(*  - Option<T> is None or Some(v).                                        *)
(***************************************************************************)
EXTENDS Integers, Sequences, FiniteSets, TLC

VARIABLES
    pc,              \* position of main: the await point it is suspended at
    stream,          \* the subscription stream handle: "none", "open", "dropped"
    sigint,          \* the future signal::ctrl_c() is ready
    reason,          \* which branch of select! completed: "none", "closed", "interrupt"
    arrivals,        \* every event pulled from the stream, in the order pulled
    origin,          \* origin[k]: index in arrivals of the event that spawned task k
    tasks,           \* the spawn_blocking closures: [poll, status], in spawn order
    store,           \* the rows of table polls
    stdout,          \* lines written with println!
    stderr,          \* lines written with eprintln! (and main's returned error)
    shutdown_calls,  \* number of calls of client.shutdown()
    exit,            \* what main returned: "none", "ok", "err"
    arg,             \* input of the function under test (function specifications)
    ret              \* its result, NotCalled before the call

vars == << pc, stream, sigint, reason, arrivals, origin, tasks, store,
           stdout, stderr, shutdown_calls, exit, arg, ret >>

mainVars == << pc, stream, sigint, reason, arrivals, origin, tasks,
               store, stdout, stderr, shutdown_calls, exit >>

-----------------------------------------------------------------------------
(* Option<T>, slices *)

None == [some |-> FALSE]

Some(v) == [some |-> TRUE, val |-> v]

NotCalled == [called |-> FALSE]

\* data[from..to]
Slice(data, from, to) == SubSeq(data, from + 1, to)

\* data[from..]
SliceFrom(data, from) == SubSeq(data, from + 1, Len(data))

Repeat(b, n) == [i \in 1..n |-> b]

-----------------------------------------------------------------------------
(* main.rs: discriminators and the classifier *)

POLL_DISCRIMINATOR == << 110, 234, 167, 188, 231, 136, 153, 111 >>

POOL_CANDIDATE_DISCRIMINATOR == << 86, 69, 250, 96, 193, 10, 222, 123 >>

VOTE_DISCRIMINATOR == << 241, 93, 35, 191, 254, 147, 17, 202 >>

DISCRIMINATOR_LEN == 8

\* a classifier that looks at the first byte only
MatchFirstByteOnly(data) ==
    IF Len(data) < DISCRIMINATOR_LEN THEN "Unknown"
    ELSE IF Len(data) # DISCRIMINATOR_LEN THEN "panic"
    ELSE IF data[1] = POLL_DISCRIMINATOR[1] THEN "Poll"
    ELSE IF data[1] = POOL_CANDIDATE_DISCRIMINATOR[1] THEN "Candidate"
    ELSE IF data[1] = VOTE_DISCRIMINATOR[1] THEN "Vote"
    ELSE "Unknown"

\* match_voting_account_type: copy_from_slice panics unless the source slice
\* has exactly the length of the destination, [0u8; 8].
match_voting_account_type(data) ==
    IF Len(data) < DISCRIMINATOR_LEN THEN "Unknown"
    ELSE IF Len(data) # DISCRIMINATOR_LEN THEN "panic"
    ELSE LET descriminator == data IN
         IF descriminator = POLL_DISCRIMINATOR THEN "Poll"
         ELSE IF descriminator = POOL_CANDIDATE_DISCRIMINATOR THEN "Candidate"
         ELSE IF descriminator = VOTE_DISCRIMINATOR THEN "Vote"
         ELSE "Unknown"

Kinds == { "Poll", "Candidate", "Vote", "Unknown" }

-----------------------------------------------------------------------------
(* state/pool.rs: the Poll layout decoder *)

U64_LEN == 8

PUBKEY_LEN == 32

STR_PREFIX_LEN == 4

POLL_NAME_MAX == 64

POLL_DESCRIPTION_MAX == 280

\* u64::from_le_bytes: the least significant digit comes first on the wire
u64_from_le_bytes(b) == [i \in 1..U64_LEN |-> b[U64_LEN + 1 - i]]

\* u32::from_le_bytes(..) as usize
u32_from_le_bytes(b) == b[1] + 256 * b[2] + 65536 * b[3] + 16777216 * b[4]

\* std::str::from_utf8(b).is_ok(), Unicode's table of well-formed byte
\* sequences (no overlong forms, no surrogates, nothing above U+10FFFF).
\* The length of the character a lead byte starts, 0 for a byte that starts none
utf8_char_width(c) ==
    IF c <= 127 THEN 1
    ELSE IF c >= 194 /\ c <= 223 THEN 2
    ELSE IF c >= 224 /\ c <= 239 THEN 3
    ELSE IF c >= 240 /\ c <= 244 THEN 4
    ELSE 0

is_continuation(c) == c >= 128 /\ c <= 191

\* the character starting at position i is complete and well formed
utf8_char_ok(b, i) ==
    LET c == b[i]
        w == utf8_char_width(c)
        lo == IF c = 224 THEN 160 ELSE IF c = 240 THEN 144 ELSE 128
        hi == IF c = 237 THEN 159 ELSE IF c = 244 THEN 143 ELSE 191
    IN  /\ w > 0
        /\ i + w - 1 <= Len(b)
        /\ w >= 2 => (b[i + 1] >= lo /\ b[i + 1] <= hi)
        /\ \A j \in (i + 2)..(i + w - 1) : is_continuation(b[j])

\* every byte either starts a well-formed character or continues the one
\* started by the nearest byte before it that is no continuation byte
from_utf8_ok(b) ==
    \A i \in 1..Len(b) :
        IF is_continuation(b[i])
        THEN \E k \in 1..3 :
                /\ i - k >= 1
                /\ ~ is_continuation(b[i - k])
                /\ utf8_char_width(b[i - k]) > k
                /\ \A m \in 1..(k - 1) : is_continuation(b[i - m])
        ELSE utf8_char_ok(b, i)

\* a string reader that checks the bytes present but not the declared maximum
ReadStringNoLimit(data, max_len) ==
    IF Len(data) < STR_PREFIX_LEN THEN None
    ELSE LET len == u32_from_le_bytes(Slice(data, 0, STR_PREFIX_LEN)) IN
         IF Len(data) < STR_PREFIX_LEN + len THEN None
         ELSE LET string_bytes == Slice(data, STR_PREFIX_LEN, STR_PREFIX_LEN + len) IN
              IF ~ from_utf8_ok(string_bytes) THEN None
              ELSE Some(<< string_bytes, STR_PREFIX_LEN + len >>)

\* read_anchor_string_manual: Some(<<string, bytes consumed>>) or None
read_anchor_string_manual(data, max_len) ==
    IF Len(data) < STR_PREFIX_LEN THEN None
    ELSE LET len == u32_from_le_bytes(Slice(data, 0, STR_PREFIX_LEN)) IN
         IF len > max_len THEN None
         ELSE IF Len(data) < STR_PREFIX_LEN + len THEN None
         ELSE LET string_bytes == Slice(data, STR_PREFIX_LEN, STR_PREFIX_LEN + len) IN
              IF ~ from_utf8_ok(string_bytes) THEN None
              ELSE Some(<< string_bytes, STR_PREFIX_LEN + len >>)

\* the tail of try_from_anchor_bytes, from the first string on; offset is
\* U64_LEN + PUBKEY_LEN on entry
PollTail(data, poll_id, poll_owner, offset) ==
    LET name == read_anchor_string_manual(SliceFrom(data, offset), POLL_NAME_MAX) IN
    IF ~ name.some THEN None
    ELSE
    LET off2 == offset + name.val[2]
        desc == read_anchor_string_manual(SliceFrom(data, off2), POLL_DESCRIPTION_MAX)
    IN
    IF ~ desc.some THEN None
    ELSE
    LET off3 == off2 + desc.val[2]
        off4 == off3 + U64_LEN
        off5 == off4 + U64_LEN
        off6 == off5 + U64_LEN
    IN
    IF Len(data) < off3 + U64_LEN THEN None
    ELSE IF Len(data) < off4 + U64_LEN THEN None
    ELSE IF Len(data) < off5 + U64_LEN THEN None
    ELSE IF Len(data) < off6 + PUBKEY_LEN THEN None
    ELSE Some([ poll_id          |-> poll_id,
                poll_owner       |-> poll_owner,
                poll_name        |-> name.val[1],
                poll_description |-> desc.val[1],
                poll_start       |-> u64_from_le_bytes(Slice(data, off3, off3 + U64_LEN)),
                poll_end         |-> u64_from_le_bytes(Slice(data, off4, off4 + U64_LEN)),
                candidate_amount |-> u64_from_le_bytes(Slice(data, off5, off5 + U64_LEN)),
                candidate_winner |-> Slice(data, off6, off6 + PUBKEY_LEN) ])

\* a decoder that gives up the bounds check of the last field and pads it
DecodeLenient(data) ==
    IF Len(data) < U64_LEN + PUBKEY_LEN THEN None
    ELSE PollTail(data \o Repeat(0, PUBKEY_LEN),
                  u64_from_le_bytes(Slice(data, 0, U64_LEN)),
                  Slice(data, U64_LEN, U64_LEN + PUBKEY_LEN),
                  U64_LEN + PUBKEY_LEN)

\* a decoder that refuses a buffer it has not read to the end
DecodeStrict(data) ==
    IF Len(data) < U64_LEN + PUBKEY_LEN THEN None
    ELSE LET poll == PollTail(data,
                              u64_from_le_bytes(Slice(data, 0, U64_LEN)),
                              Slice(data, U64_LEN, U64_LEN + PUBKEY_LEN),
                              U64_LEN + PUBKEY_LEN)
         IN  IF poll.some
                /\ Len(data) # U64_LEN + PUBKEY_LEN
                                + STR_PREFIX_LEN + Len(poll.val.poll_name)
                                + STR_PREFIX_LEN + Len(poll.val.poll_description)
                                + U64_LEN + U64_LEN + U64_LEN + PUBKEY_LEN
             THEN None
             ELSE poll

\* Poll::try_from_anchor_bytes
try_from_anchor_bytes(data) ==
    IF Len(data) < 0 + U64_LEN THEN None
    ELSE IF Len(data) < U64_LEN + PUBKEY_LEN THEN None
    ELSE PollTail(data,
                  u64_from_le_bytes(Slice(data, 0, U64_LEN)),
                  Slice(data, U64_LEN, U64_LEN + PUBKEY_LEN),
                  U64_LEN + PUBKEY_LEN)

\* decode_poll: strips the discriminator
decode_poll(data) ==
    IF Len(data) < DISCRIMINATOR_LEN THEN None
    ELSE try_from_anchor_bytes(SliceFrom(data, DISCRIMINATOR_LEN))

-----------------------------------------------------------------------------
(* The wire layout the decoder reads, written the other way round: what the *)
(* on-chain program stores for a Poll (borsh: little-endian integers,       *)
(* strings as a 4-byte little-endian length followed by the bytes).         *)

u64_to_le_bytes(u) == [i \in 1..U64_LEN |-> u[U64_LEN + 1 - i]]

u32_to_le_bytes(n) ==
    << n % 256, (n \div 256) % 256, (n \div 65536) % 256, n \div 16777216 >>

encode_string(s) == u32_to_le_bytes(Len(s)) \o s

encode_poll(p) ==
    u64_to_le_bytes(p.poll_id) \o p.poll_owner
    \o encode_string(p.poll_name) \o encode_string(p.poll_description)
    \o u64_to_le_bytes(p.poll_start) \o u64_to_le_bytes(p.poll_end)
    \o u64_to_le_bytes(p.candidate_amount) \o p.candidate_winner

\* the u64 with value n, for 0 <= n < 2^16
U64(n) == << 0, 0, 0, 0, 0, 0, n \div 256, n % 256 >>

-----------------------------------------------------------------------------
(* Inputs *)

\* longest run of trailing bytes appended to a buffer
MaxExtra == 2

ExtraBytes == { 0, 65, 255 }

Extras == UNION { [1..n -> ExtraBytes] : n \in 1..MaxExtra }

\* "A", and a 64-byte name that ends in a two-byte character
NameA == << 65 >>

Name64 == [i \in 1..62 |-> 97 + (i % 26)] \o << 195, 169 >>

Name65 == [i \in 1..65 |-> 97 + (i % 26)]

Name257 == [i \in 1..257 |-> 97 + (i % 26)]

Desc280 == [i \in 1..277 |-> 48 + (i % 10)] \o << 226, 130, 172 >>

Desc281 == [i \in 1..281 |-> 48 + (i % 10)]

Desc536 == [i \in 1..536 |-> 48 + (i % 10)]

\* ill-formed UTF-8: a lone continuation byte, a cut two-byte sequence,
\* an overlong form, a surrogate, a byte that never occurs
BadUtf8 == { << 128 >>, << 65, 195 >>, << 192, 175 >>, << 237, 160, 128 >>,
             << 65, 255, 66 >> }

\* the record of the end-to-end scenario: poll_id 7, owner zero, name "A",
\* empty description, 1000..2000, 2 candidates, winner 0xFF..
PollScenario ==
    [ poll_id          |-> U64(7),
      poll_owner       |-> Repeat(0, PUBKEY_LEN),
      poll_name        |-> NameA,
      poll_description |-> << >>,
      poll_start       |-> U64(1000),
      poll_end         |-> U64(2000),
      candidate_amount |-> U64(2),
      candidate_winner |-> Repeat(255, PUBKEY_LEN) ]

\* every field at its largest, every byte of an integer different
PollMax ==
    [ poll_id          |-> << 255, 254, 253, 252, 251, 250, 249, 248 >>,
      poll_owner       |-> [i \in 1..PUBKEY_LEN |-> i],
      poll_name        |-> Name64,
      poll_description |-> Desc280,
      poll_start       |-> << 1, 2, 3, 4, 5, 6, 7, 8 >>,
      poll_end         |-> << 128, 0, 0, 0, 0, 0, 0, 1 >>,
      candidate_amount |-> << 0, 0, 0, 1, 0, 0, 0, 0 >>,
      candidate_winner |-> [i \in 1..PUBKEY_LEN |-> 200 + i] ]

PollEmpty ==
    [ PollScenario EXCEPT !.poll_id = U64(0), !.poll_name = << >> ]

\* a second state of poll 7
PollScenario2 ==
    [ PollScenario EXCEPT !.poll_name = << 66, 66 >>,
                          !.poll_description = << 100 >>,
                          !.candidate_amount = U64(3) ]

ValidPolls == { PollScenario, PollScenario2, PollMax, PollEmpty }

\* records the decoder must refuse: a string over its limit, or not UTF-8
OverLimitPolls ==
    { [PollScenario EXCEPT !.poll_name = Name65],
      [PollScenario EXCEPT !.poll_name = Name257],
      [PollMax EXCEPT !.poll_description = Desc281],
      [PollScenario EXCEPT !.poll_description = Desc536] }

BadUtf8Polls ==
    { [PollScenario EXCEPT !.poll_name = b] : b \in BadUtf8 }
    \cup { [PollMax EXCEPT !.poll_description = b] : b \in BadUtf8 }

SamplePolls == ValidPolls \cup OverLimitPolls \cup BadUtf8Polls

\* a record as the layout allows it (3. DATA MODEL)
ValidPoll(p) ==
    /\ Len(p.poll_name) <= POLL_NAME_MAX
    /\ Len(p.poll_description) <= POLL_DESCRIPTION_MAX
    /\ from_utf8_ok(p.poll_name)
    /\ from_utf8_ok(p.poll_description)

\* the buffer of a decoder input: encode, drop cut bytes, append extra
BodyOf(a) ==
    LET full == encode_poll(a.poll) IN
    SubSeq(full, 1, Len(full) - a.cut) \o a.extra

\* decoder inputs: each record whole, with every suffix of 1..N bytes
\* removed, and whole with trailing bytes
DecodeArgs(polls) ==
    UNION { { [poll |-> p, cut |-> k, extra |-> << >>] :
                k \in 0..Len(encode_poll(p)) } : p \in polls }
    \cup { [poll |-> p, cut |-> 0, extra |-> e] : p \in polls, e \in Extras }

Discriminators ==
    { POLL_DISCRIMINATOR, POOL_CANDIDATE_DISCRIMINATOR, VOTE_DISCRIMINATOR }

\* classifier inputs: every prefix of a discriminator, a discriminator with
\* one byte changed, halves of two discriminators, a discriminator followed
\* by more bytes
ClassifyArgs ==
    { SubSeq(d, 1, n) : d \in Discriminators, n \in 0..DISCRIMINATOR_LEN }
    \cup { [d EXCEPT ![i] = (d[i] + 1) % 256] :
              d \in Discriminators, i \in 1..DISCRIMINATOR_LEN }
    \cup { SubSeq(d, 1, 4) \o SubSeq(e, 5, DISCRIMINATOR_LEN) :
              d \in Discriminators, e \in Discriminators }
    \cup { d \o e : d \in Discriminators, e \in Extras }
    \cup { encode_poll(PollScenario) }

-----------------------------------------------------------------------------
(* Events of the main specification *)

\* number of events the update source delivers
MaxEvents == 2

\* poll 7 with the top bit of its id set: 2^63 + 7
PollHigh == [ PollScenario EXCEPT !.poll_id = << 128, 0, 0, 0, 0, 0, 0, 7 >> ]

UnknownTag == [ POLL_DISCRIMINATOR EXCEPT ![DISCRIMINATOR_LEN] = 0 ]

\* account data as the subscription delivers it, base64 already undone
EventPayloads ==
    { POLL_DISCRIMINATOR \o encode_poll(PollScenario),
      POLL_DISCRIMINATOR \o encode_poll(PollScenario2),
      POLL_DISCRIMINATOR \o encode_poll(PollHigh),
      POLL_DISCRIMINATOR
          \o BodyOf([poll |-> PollScenario, cut |-> 1, extra |-> << >>]),
      POLL_DISCRIMINATOR \o encode_poll([PollScenario EXCEPT !.poll_name = Name65]),
      POLL_DISCRIMINATOR
          \o encode_poll([PollScenario EXCEPT !.poll_name = << 65, 255, 66 >>]),
      VOTE_DISCRIMINATOR \o encode_poll(PollScenario),
      POOL_CANDIDATE_DISCRIMINATOR \o encode_poll(PollScenario),
      UnknownTag \o encode_poll(PollScenario),
      SubSeq(POLL_DISCRIMINATOR, 1, DISCRIMINATOR_LEN - 1) }

\* account.data.decode(): None when the data is not decodable
Events == { None } \cup { Some(b) : b \in EventPayloads }

-----------------------------------------------------------------------------
(* main.rs: handle_response *)

\* a conversion that clamps what does not fit to i64::MAX
AsI64Saturating(u) ==
    IF u[1] >= 128 THEN << 127, 255, 255, 255, 255, 255, 255, 255 >> ELSE u

\* u64 as i64: the same 64 bits, read as two's complement
as_i64(u) == [ u EXCEPT ![1] = IF u[1] >= 128 THEN u[1] - 256 ELSE u[1] ]

\* the NewPoll built from a decoded Poll
new_poll_of(poll) ==
    [ poll_id          |-> as_i64(poll.poll_id),
      poll_owner       |-> poll.poll_owner,
      poll_name        |-> poll.poll_name,
      poll_description |-> poll.poll_description,
      poll_start       |-> as_i64(poll.poll_start),
      poll_end         |-> as_i64(poll.poll_end),
      candidate_amount |-> as_i64(poll.candidate_amount),
      candidate_winner |-> poll.candidate_winner ]

\* the println! lines of a decoded poll
poll_lines(poll) ==
    << << "New Poll account updated:" >>,
       << "ID: ", poll.poll_id >>,
       << "Owner: ", poll.poll_owner >>,
       << "Name: ", poll.poll_name >>,
       << "Description: ", poll.poll_description >>,
       << "Start: ", poll.poll_start >>,
       << "End: ", poll.poll_end >>,
       << "Candidates: ", poll.candidate_amount >>,
       << "Winner: ", poll.candidate_winner >> >>

\* a plain INSERT, as _insert_poll issues it, on a table without the
\* unique constraint
InsertRows(rows, poll) ==
    rows \cup { [ id               |-> Cardinality(rows) + 1,
                  poll_id          |-> poll.poll_id,
                  poll_owner       |-> poll.poll_owner,
                  poll_name        |-> poll.poll_name,
                  poll_description |-> poll.poll_description,
                  poll_start       |-> poll.poll_start,
                  poll_end         |-> poll.poll_end,
                  candidate_amount |-> poll.candidate_amount,
                  candidate_winner |-> poll.candidate_winner ] }

\* an upsert whose SET list leaves out poll_name
UpsertMissingColumn(rows, poll) ==
    IF \E r \in rows : r.poll_id = poll.poll_id
    THEN { IF r.poll_id = poll.poll_id
           THEN [ r EXCEPT !.poll_owner       = poll.poll_owner,
                           !.poll_description = poll.poll_description,
                           !.poll_start       = poll.poll_start,
                           !.poll_end         = poll.poll_end,
                           !.candidate_amount = poll.candidate_amount,
                           !.candidate_winner = poll.candidate_winner ]
           ELSE r : r \in rows }
    ELSE InsertRows(rows, poll)

\* the INSERT ... ON CONFLICT (poll_id) DO UPDATE SET ... statement on the
\* rows of table polls; id is the table's own key, given by the database
upsert_rows(rows, poll) ==
    IF \E r \in rows : r.poll_id = poll.poll_id
    THEN { IF r.poll_id = poll.poll_id
           THEN [ r EXCEPT !.poll_owner       = poll.poll_owner,
                           !.poll_name        = poll.poll_name,
                           !.poll_description = poll.poll_description,
                           !.poll_start       = poll.poll_start,
                           !.poll_end         = poll.poll_end,
                           !.candidate_amount = poll.candidate_amount,
                           !.candidate_winner = poll.candidate_winner ]
           ELSE r : r \in rows }
    ELSE rows \cup { [ id               |-> Cardinality(rows) + 1,
                       poll_id          |-> poll.poll_id,
                       poll_owner       |-> poll.poll_owner,
                       poll_name        |-> poll.poll_name,
                       poll_description |-> poll.poll_description,
                       poll_start       |-> poll.poll_start,
                       poll_end         |-> poll.poll_end,
                       candidate_amount |-> poll.candidate_amount,
                       candidate_winner |-> poll.candidate_winner ] }

\* the closures spawned and not yet run
Pending == { k \in 1..Len(tasks) : tasks[k].status = "pending" }

\* a hand-off through a queue of one: the consumer waits while it is full
SpawnBounded(new_poll) ==
    /\ Cardinality(Pending) < 1
    /\ tasks' = Append(tasks, [poll |-> new_poll, status |-> "pending"])
    /\ origin' = Append(origin, Len(arrivals) + 1)
    /\ UNCHANGED store

\* a hand-off that runs the write before it returns
SpawnAndWait(new_poll) ==
    /\ tasks' = Append(tasks, [poll |-> new_poll, status |-> "done"])
    /\ origin' = Append(origin, Len(arrivals) + 1)
    /\ store' = upsert_rows(store, new_poll)

\* a hand-off that replaces a waiting write for the same poll_id
SpawnCoalesce(new_poll) ==
    LET same == { k \in Pending : tasks[k].poll.poll_id = new_poll.poll_id } IN
    /\ IF same = { }
       THEN /\ tasks' = Append(tasks, [poll |-> new_poll, status |-> "pending"])
            /\ origin' = Append(origin, Len(arrivals) + 1)
       ELSE /\ tasks' = [k \in 1..Len(tasks) |->
                            IF k \in same THEN [tasks[k] EXCEPT !.poll = new_poll]
                            ELSE tasks[k]]
            /\ origin' = [k \in 1..Len(origin) |->
                            IF k \in same THEN Len(arrivals) + 1 ELSE origin[k]]
    /\ UNCHANGED store

\* tokio::task::spawn_blocking(move || upsert_poll(..)): the closure is
\* queued and handle_response goes on
spawn_blocking(new_poll) ==
    /\ tasks' = Append(tasks, [poll |-> new_poll, status |-> "pending"])
    /\ origin' = Append(origin, Len(arrivals) + 1)
    /\ UNCHANGED store

\* a failed decode that still stores what the fixed-width head gave
DecodeFailedBestEffort ==
    /\ stdout' = stdout \o << << "started decoding" >>,
                              << "Could not decode as Poll" >> >>
    /\ tasks' = Append(tasks, [poll |-> new_poll_of(PollEmpty), status |-> "pending"])
    /\ origin' = Append(origin, Len(arrivals) + 1)
    /\ UNCHANGED store

\* the else branch of `if let Some(poll) = decode_poll(..)`
decode_failed ==
    /\ stdout' = stdout \o << << "started decoding" >>,
                              << "Could not decode as Poll" >> >>
    /\ UNCHANGED << tasks, origin, store >>

\* a Poll arm with a cancellation point between the decode and the hand-off:
\* a ready ctrl_c() ends it there
PollArmCancellable(acc_data) ==
    LET poll == decode_poll(acc_data) IN
    IF poll.some
    THEN IF sigint
         THEN /\ stdout' = Append(stdout, << "started decoding" >>)
              /\ UNCHANGED << tasks, origin, store >>
         ELSE /\ spawn_blocking(new_poll_of(poll.val))
              /\ stdout' = stdout \o << << "started decoding" >> >> \o poll_lines(poll.val)
    ELSE decode_failed

\* the VotingAccountType::Poll arm
poll_arm(acc_data) ==
    LET poll == decode_poll(acc_data) IN
    IF poll.some
    THEN /\ spawn_blocking(new_poll_of(poll.val))
         /\ stdout' = stdout \o << << "started decoding" >> >> \o poll_lines(poll.val)
    ELSE decode_failed

\* a handler that skips the classifier and decodes every account as a Poll
HandleResponseDecodeAll(data) ==
    IF data.some /\ Len(data.val) >= DISCRIMINATOR_LEN
    THEN poll_arm(data.val)
    ELSE UNCHANGED << tasks, origin, store, stdout >>

\* handle_response, on the result of account.data.decode()
handle_response(data) ==
    IF data.some /\ Len(data.val) >= DISCRIMINATOR_LEN
    THEN LET acc_data == data.val
             account_type ==
                 match_voting_account_type(Slice(acc_data, 0, DISCRIMINATOR_LEN))
         IN  CASE account_type = "Poll" -> poll_arm(acc_data)
               [] account_type = "Candidate" ->
                      /\ stdout' = Append(stdout, << "Candidate account update" >>)
                      /\ UNCHANGED << tasks, origin, store >>
               [] account_type = "Vote" ->
                      /\ stdout' = Append(stdout, << "Voter account update" >>)
                      /\ UNCHANGED << tasks, origin, store >>
               [] account_type = "Unknown" ->
                      /\ stdout' = Append(stdout, << "Unknown account type." >>)
                      /\ UNCHANGED << tasks, origin, store >>
    ELSE UNCHANGED << tasks, origin, store, stdout >>

-----------------------------------------------------------------------------
(* main.rs: main, one action per stretch between two await points *)

MainInit ==
    /\ pc = "connect"
    /\ stream = "none"
    /\ sigint = FALSE
    /\ reason = "none"
    /\ arrivals = << >>
    /\ origin = << >>
    /\ tasks = << >>
    /\ store = { }
    /\ stdout = << >>
    /\ stderr = << >>
    /\ shutdown_calls = 0
    /\ exit = "none"

\* `?` on an Err: main returns it, the runtime prints it
return_err(context) ==
    /\ pc' = "exited"
    /\ exit' = "err"
    /\ stderr' = Append(stderr, << "Error: ", context >>)

\* PubsubClient::new(URL).await fails
ConnectErr ==
    /\ pc = "connect"
    /\ return_err("Failed to connect to PubsubClient")
    /\ UNCHANGED << stream, sigint, reason, arrivals, origin, tasks, store,
                    stdout, shutdown_calls, arg, ret >>

\* the client connects, establish_pool() fails
PoolErr ==
    /\ pc = "connect"
    /\ \E context \in { "DATABASE_URL must be set in .env",
                        "Failed to build connection pool" } : return_err(context)
    /\ UNCHANGED << stream, sigint, reason, arrivals, origin, tasks, store,
                    stdout, shutdown_calls, arg, ret >>

\* the client connects, the pool is built, program_subscribe is awaited
ConnectOk ==
    /\ pc = "connect"
    /\ pc' = "subscribe"
    /\ UNCHANGED << stream, sigint, reason, arrivals, origin, tasks, store,
                    stdout, stderr, shutdown_calls, exit, arg, ret >>

SubscribeErr ==
    /\ pc = "subscribe"
    /\ return_err("Failed to subscribe to the program")
    /\ UNCHANGED << stream, sigint, reason, arrivals, origin, tasks, store,
                    stdout, shutdown_calls, arg, ret >>

\* the subscription is set up; main enters select!
SubscribeOk ==
    /\ pc = "subscribe"
    /\ stream' = "open"
    /\ stdout' = Append(stdout, << "Listening for state changes to program: " >>)
    /\ pc' = "select"
    /\ UNCHANGED << sigint, reason, arrivals, origin, tasks, store, stderr,
                    shutdown_calls, exit, arg, ret >>

\* a loop that lives on as a task of its own while main shuts down
PullWhileStopping(e) ==
    /\ pc \in { "select", "shutdown" }
    /\ Len(arrivals) < MaxEvents
    /\ arrivals' = Append(arrivals, e)
    /\ handle_response(e)
    /\ UNCHANGED << pc, stream, sigint, reason, stderr, shutdown_calls,
                    exit, arg, ret >>

\* stream.next() yields an event and the loop body handles it; the body has
\* no await point, so it runs to its end before select! is polled again
Pull(e) ==
    /\ pc = "select"
    /\ Len(arrivals) < MaxEvents
    /\ arrivals' = Append(arrivals, e)
    /\ handle_response(e)
    /\ UNCHANGED << pc, stream, sigint, reason, stderr, shutdown_calls,
                    exit, arg, ret >>

\* signal::ctrl_c() becomes ready: the interrupt is delivered while main is
\* in select! (the branch pattern `_` takes whatever the future returns)
CtrlC ==
    /\ pc = "select"
    /\ ~ sigint
    /\ sigint' = TRUE
    /\ UNCHANGED << pc, stream, reason, arrivals, origin, tasks, store, stdout,
                    stderr, shutdown_calls, exit, arg, ret >>

\* a shutdown that drops the stream and never calls client.shutdown()
TeardownNoShutdown ==
    /\ stream' = "dropped"
    /\ shutdown_calls' = shutdown_calls
    /\ pc' = "shutdown"

\* after select!: drop(stream), then client.shutdown() is called and awaited
teardown ==
    /\ stream' = "dropped"
    /\ shutdown_calls' = shutdown_calls + 1
    /\ pc' = "shutdown"

\* select! completes with the ctrl_c() branch
SelectCtrlC ==
    /\ pc = "select"
    /\ sigint
    /\ reason' = "interrupt"
    /\ stdout' = Append(stdout, << "Ctrl+C received, shutting down..." >>)
    /\ teardown
    /\ UNCHANGED << sigint, arrivals, origin, tasks, store, stderr, exit, arg, ret >>

\* stream.next() yields None: the loop ends and select! completes with it
StreamEnd ==
    /\ pc = "select"
    /\ reason' = "closed"
    /\ teardown
    /\ UNCHANGED << sigint, arrivals, origin, tasks, store, stdout, stderr,
                    exit, arg, ret >>

\* a shutdown that first waits until no write is pending
ShutdownOkDrain ==
    /\ pc = "shutdown"
    /\ Pending = { }
    /\ stdout' = Append(stdout, << "Good Bye" >>)
    /\ exit' = "ok"
    /\ pc' = "exited"
    /\ UNCHANGED << stream, sigint, reason, arrivals, origin, tasks, store,
                    stderr, shutdown_calls, arg, ret >>

\* client.shutdown().await is Ok
ShutdownOk ==
    /\ pc = "shutdown"
    /\ stdout' = Append(stdout, << "Good Bye" >>)
    /\ exit' = "ok"
    /\ pc' = "exited"
    /\ UNCHANGED << stream, sigint, reason, arrivals, origin, tasks, store,
                    stderr, shutdown_calls, arg, ret >>

\* a failed shutdown that sends main back into the loop
ShutdownErrResume ==
    /\ pc = "shutdown"
    /\ pc' = "select"
    /\ stderr' = Append(stderr, << "Error: ", "shutdown" >>)
    /\ UNCHANGED << stream, sigint, reason, arrivals, origin, tasks, store,
                    stdout, shutdown_calls, exit, arg, ret >>

\* client.shutdown().await is Err: `?` returns it from main
ShutdownErr ==
    /\ pc = "shutdown"
    /\ return_err("shutdown")
    /\ UNCHANGED << stream, sigint, reason, arrivals, origin, tasks, store,
                    stdout, shutdown_calls, arg, ret >>

-----------------------------------------------------------------------------
(* db.rs: upsert_poll, run by the blocking pool for task k *)

\* a closure that logs the failure and leaves the write queued for a retry
UpsertFailedRequeue(k) ==
    /\ tasks' = tasks
    /\ stderr' = Append(stderr, << "DB insert failed: " >>)
    /\ UNCHANGED store

\* the closure's `if let Err(e)`: eprintln!, nothing else
upsert_failed(k) ==
    /\ tasks' = [tasks EXCEPT ![k].status = "failed"]
    /\ stderr' = Append(stderr, << "DB insert failed: " >>)
    /\ UNCHANGED store

\* pool.get() and the statement succeed
UpsertOk ==
    /\ \E k \in Pending :
          /\ store' = upsert_rows(store, tasks[k].poll)
          /\ tasks' = [tasks EXCEPT ![k].status = "done"]
    /\ UNCHANGED << pc, stream, sigint, reason, arrivals, origin, stdout,
                    stderr, shutdown_calls, exit, arg, ret >>

\* pool.get() fails
UpsertNoConnection ==
    /\ \E k \in Pending : upsert_failed(k)
    /\ UNCHANGED << pc, stream, sigint, reason, arrivals, origin, stdout,
                    shutdown_calls, exit, arg, ret >>

\* execute() fails
UpsertExecuteErr ==
    /\ \E k \in Pending : upsert_failed(k)
    /\ UNCHANGED << pc, stream, sigint, reason, arrivals, origin, stdout,
                    shutdown_calls, exit, arg, ret >>

-----------------------------------------------------------------------------
(* Specifications *)

Init ==
    /\ MainInit
    /\ arg = << >>
    /\ ret = NotCalled

Next ==
    \/ ConnectErr
    \/ PoolErr
    \/ ConnectOk
    \/ SubscribeErr
    \/ SubscribeOk
    \/ \E e \in Events : Pull(e)
    \/ CtrlC
    \/ SelectCtrlC
    \/ StreamEnd
    \/ ShutdownOk
    \/ ShutdownErr
    \/ UpsertOk
    \/ UpsertNoConnection
    \/ UpsertExecuteErr

Spec == Init /\ [][Next]_vars

\* select! is polled again when ctrl_c() becomes ready, and completes with
\* that branch unless the loop ends first
FairSpec == Spec /\ WF_vars(SelectCtrlC)

\* client.shutdown() sends the shutdown signal to the client's socket task
\* and awaits its end: the await completes, with either result
LiveSpec == FairSpec /\ WF_vars(ShutdownOk \/ ShutdownErr)

\* poll_id values around the sign bit and at both ends of the u64 range
KeySamples ==
    { << 0, 0, 0, 0, 0, 0, 0, 0 >>,
      << 0, 0, 0, 0, 0, 0, 0, 7 >>,
      << 0, 0, 0, 0, 0, 0, 0, 255 >>,
      << 1, 0, 0, 0, 0, 0, 0, 0 >>,
      << 127, 255, 255, 255, 255, 255, 255, 255 >>,
      << 128, 0, 0, 0, 0, 0, 0, 0 >>,
      << 128, 0, 0, 0, 0, 0, 0, 7 >>,
      << 129, 0, 0, 0, 0, 0, 0, 0 >>,
      << 255, 255, 255, 255, 255, 255, 255, 249 >>,
      << 255, 255, 255, 255, 255, 255, 255, 255 >> }

KeyArgs == KeySamples \X KeySamples

\* the poll_id conversion and the upsert alone: two decoded polls become
\* NewPoll records and are written, one after the other, to an empty table
InitKey ==
    /\ MainInit
    /\ arg \in KeyArgs
    /\ ret = NotCalled

CallKey ==
    /\ ret = NotCalled
    /\ ret' = LET first  == new_poll_of([PollScenario EXCEPT !.poll_id = arg[1]])
                  second == new_poll_of([PollScenario2 EXCEPT !.poll_id = arg[2]])
              IN  [called |-> TRUE,
                   val |-> [first  |-> first,
                            second |-> second,
                            rows   |-> upsert_rows(upsert_rows({ }, first), second)]]
    /\ UNCHANGED << mainVars, arg >>

SpecKey == InitKey /\ [][CallKey]_vars

\* the classifier alone, on a byte slice of any length
InitClassify ==
    /\ MainInit
    /\ arg \in ClassifyArgs
    /\ ret = NotCalled

CallClassify ==
    /\ ret = NotCalled
    /\ ret' = [called |-> TRUE, val |-> match_voting_account_type(arg)]
    /\ UNCHANGED << mainVars, arg >>

SpecClassify == InitClassify /\ [][CallClassify]_vars

\* the decoder alone, on the body of an account (discriminator stripped)
InitDecode ==
    /\ MainInit
    /\ arg \in DecodeArgs(SamplePolls)
    /\ ret = NotCalled

CallDecode ==
    /\ ret = NotCalled
    /\ ret' = [called |-> TRUE, val |-> try_from_anchor_bytes(BodyOf(arg))]
    /\ UNCHANGED << mainVars, arg >>

SpecDecode == InitDecode /\ [][CallDecode]_vars

-----------------------------------------------------------------------------
(* Properties of the decoder (SpecDecode) *)

\* C1: decoding is all-or-nothing. For a validly encoded Poll body, the exact
\* body decodes to a record whose eight fields are the encoded values, and the
\* body with any suffix of 1..N bytes removed does not decode at all.
C1_DecodeAllOrNothing ==
    (ret.called /\ ValidPoll(arg.poll) /\ arg.extra = << >>)
        => IF arg.cut = 0
           THEN /\ ret.val.some
                /\ ret.val.val.poll_id = arg.poll.poll_id
                /\ ret.val.val.poll_owner = arg.poll.poll_owner
                /\ ret.val.val.poll_name = arg.poll.poll_name
                /\ ret.val.val.poll_description = arg.poll.poll_description
                /\ ret.val.val.poll_start = arg.poll.poll_start
                /\ ret.val.val.poll_end = arg.poll.poll_end
                /\ ret.val.val.candidate_amount = arg.poll.candidate_amount
                /\ ret.val.val.candidate_winner = arg.poll.candidate_winner
           ELSE ret.val = None

\* the largest record, encoded and decoded back
C1_Witness ==
    /\ ret.called
    /\ arg = [poll |-> PollMax, cut |-> 0, extra |-> << >>]
    /\ ret.val = Some(PollMax)

\* C8: a string whose length prefix is over the field's maximum (64 for the
\* name, 280 for the description) makes the decode fail although that many
\* bytes are present; prefixes of exactly 64 and 280 are accepted.
C8_StringLimit ==
    (ret.called /\ arg.cut = 0)
        => /\ Len(arg.poll.poll_name) > POLL_NAME_MAX => ret.val = None
           /\ Len(arg.poll.poll_description) > POLL_DESCRIPTION_MAX => ret.val = None
           /\ ( /\ Len(arg.poll.poll_name) = POLL_NAME_MAX
                /\ Len(arg.poll.poll_description) = POLL_DESCRIPTION_MAX
                /\ ValidPoll(arg.poll) )
              => ( /\ ret.val.some
                   /\ ret.val.val.poll_name = arg.poll.poll_name
                   /\ ret.val.val.poll_description = arg.poll.poll_description )

\* a 65-byte name, all 65 bytes in the buffer, refused
C8_Witness ==
    /\ ret.called
    /\ arg.cut = 0
    /\ arg.poll.poll_name = Name65
    /\ Len(BodyOf(arg)) >= U64_LEN + PUBKEY_LEN + STR_PREFIX_LEN + Len(Name65)
    /\ ret.val = None

-----------------------------------------------------------------------------
(* Properties of the classifier (SpecClassify) *)

\* C6: classification is total and looks at the first 8 bytes only: for a
\* slice of any length it returns Poll, Candidate, Vote or Unknown, and for a
\* slice of 8 bytes or more the kind is that of its first 8 bytes.
C6_ClassifyTotal ==
    ret.called
        => /\ ret.val \in Kinds
           /\ Len(arg) >= DISCRIMINATOR_LEN
                => ret.val = match_voting_account_type(
                                 SubSeq(arg, 1, DISCRIMINATOR_LEN))

-----------------------------------------------------------------------------
(* Properties of the consumer, the persistence hand-off and shutdown (Spec) *)

\* the NewPoll records of the sample polls
NewPolls == { new_poll_of(p) : p \in ValidPolls \cup { PollHigh } }

\* an event whose data carries the Poll tag
PollTagged(e) ==
    /\ e.some
    /\ Len(e.val) >= DISCRIMINATOR_LEN
    /\ SubSeq(e.val, 1, DISCRIMINATOR_LEN) = POLL_DISCRIMINATOR

\* a Poll event whose body decodes
Decodable(e) ==
    /\ PollTagged(e)
    /\ try_from_anchor_bytes(SubSeq(e.val, DISCRIMINATOR_LEN + 1, Len(e.val))).some

BadUtf8Event ==
    Some(POLL_DISCRIMINATOR
         \o encode_poll([PollScenario EXCEPT !.poll_name = << 65, 255, 66 >>]))

\* C2: a decode failure is never fatal to the stream. The step that handles a
\* Poll-tagged event whose body does not decode spawns no write, leaves the
\* store alone, and leaves main in the loop with the stream open.
C2_DecodeFailureNotFatal ==
    [][ ( /\ Len(arrivals') = Len(arrivals) + 1
          /\ PollTagged(arrivals'[Len(arrivals')])
          /\ ~ Decodable(arrivals'[Len(arrivals')]) )
        => ( /\ tasks' = tasks
             /\ store' = store
             /\ pc' = "select"
             /\ stream' = "open"
             /\ exit' = "none" ) ]_vars

\* a Poll event with ill-formed UTF-8 was skipped, and the event after it
\* was pulled, decoded and handed over
C2_Witness ==
    /\ Len(arrivals) = 2
    /\ arrivals[1] = BadUtf8Event
    /\ Decodable(arrivals[2])
    /\ Len(tasks) = 1
    /\ origin[1] = 2

\* C3: the consumer never waits for a write. The hand-off of a record is
\* possible in every state, whatever the number of writes still pending; the
\* step that hands a record over queues it as pending, writes nothing
\* itself, and leaves main in the loop, ready for the next event.
C3_NoBackpressure ==
    /\ [](\A p \in NewPolls : ENABLED spawn_blocking(p))
    /\ [][ Len(tasks') > Len(tasks)
             => ( /\ pc' = "select"
                  /\ store' = store
                  /\ Pending' = Pending \cup { Len(tasks') } ) ]_vars

\* two records handed over, neither written yet, main in the loop
C3_Witness ==
    /\ pc = "select"
    /\ Len(tasks) >= 2
    /\ Pending = 1..Len(tasks)
    /\ store = { }

\* C4: every way out of the loop, the interrupt and the source ending, calls
\* the teardown exactly once: no call before select! completes, one call from
\* then on, with the stream released; and an interrupt delivered while main
\* waits in select! leads to that call.
C4_TeardownOnce ==
    /\ []( /\ reason = "none" => (shutdown_calls = 0 /\ pc # "shutdown")
           /\ reason # "none"
                => ( /\ shutdown_calls = 1
                     /\ pc \in { "shutdown", "exited" }
                     /\ stream = "dropped" )
           /\ reason = "interrupt" => sigint )
    /\ ((sigint /\ pc = "select") ~> (shutdown_calls = 1 /\ pc # "select"))

\* the interrupt ended the loop and the process has ended
C4_Witness ==
    /\ reason = "interrupt"
    /\ pc = "exited"
    /\ shutdown_calls = 1
    /\ stream = "dropped"

\* C5: a failure of the teardown call is not fatal: once the teardown has
\* been called the process ends cleanly; only a failure of the connection or
\* subscription setup makes main return an error.
C5_TeardownFailureNotFatal ==
    (pc = "exited" /\ shutdown_calls > 0) => exit = "ok"

NonKeyFields(r) ==
    [ poll_owner       |-> r.poll_owner,
      poll_name        |-> r.poll_name,
      poll_description |-> r.poll_description,
      poll_start       |-> r.poll_start,
      poll_end         |-> r.poll_end,
      candidate_amount |-> r.candidate_amount,
      candidate_winner |-> r.candidate_winner ]

\* C9: after any sequence of upserts the store holds at most one row per
\* poll_id; the same record applied twice gives the store of one
\* application; two records with one poll_id applied in turn leave exactly
\* one row for it, with the non-key fields of the second.
C9_UpsertIdempotent ==
    /\ \A r1, r2 \in store : r1.poll_id = r2.poll_id => r1 = r2
    /\ \A p \in NewPolls :
          upsert_rows(upsert_rows(store, p), p) = upsert_rows(store, p)
    /\ \A p, q \in NewPolls :
          p.poll_id = q.poll_id
            => LET after == upsert_rows(upsert_rows(store, p), q)
                   hit == { r \in after : r.poll_id = q.poll_id }
               IN  /\ Cardinality(hit) = 1
                   /\ \A r \in hit : NonKeyFields(r) = NonKeyFields(q)
    /\ \A k \in 1..Len(tasks) :
          tasks[k].status = "done"
            => \E r \in store : r.poll_id = tasks[k].poll.poll_id

\* two different records of one poll were written, one row is stored
C9_Witness ==
    /\ Cardinality(store) = 1
    /\ \E j, k \in 1..Len(tasks) :
          /\ tasks[j].status = "done"
          /\ tasks[k].status = "done"
          /\ tasks[j].poll.poll_id = tasks[k].poll.poll_id
          /\ tasks[j].poll # tasks[k].poll

\* C10: the records handed to persistence are, in arrival order, those of the
\* events that carry the Poll tag and decode: nothing reordered, nothing
\* dropped for a repeated poll_id.
C10_DispatchInArrivalOrder ==
    LET decoded == SelectSeq(arrivals, Decodable) IN
    /\ Len(tasks) = Len(decoded)
    /\ \A k \in 1..Len(tasks) :
          tasks[k].poll = new_poll_of(decode_poll(decoded[k].val).val)

\* two states of poll 7 arrived one after the other, with an event that is
\* no decodable Poll possible around them; both were handed over, in order
C10_Witness ==
    /\ Len(tasks) = 2
    /\ tasks[1].poll = new_poll_of(PollScenario2)
    /\ tasks[2].poll = new_poll_of(PollScenario)

VoteEvent == Some(VOTE_DISCRIMINATOR \o encode_poll(PollScenario))

\* C12: the Poll decoder runs only for events classified as Poll. The step
\* that handles an event with another tag (Vote, Candidate, unknown) prints
\* that kind's line only, never "started decoding", and hands nothing over.
C12_DecoderOnlyForPoll ==
    [][ ( /\ Len(arrivals') = Len(arrivals) + 1
          /\ arrivals'[Len(arrivals')].some
          /\ Len(arrivals'[Len(arrivals')].val) >= DISCRIMINATOR_LEN
          /\ ~ PollTagged(arrivals'[Len(arrivals')]) )
        => LET tag == SubSeq(arrivals'[Len(arrivals')].val, 1, DISCRIMINATOR_LEN)
               line == IF tag = VOTE_DISCRIMINATOR THEN "Voter account update"
                       ELSE IF tag = POOL_CANDIDATE_DISCRIMINATOR
                            THEN "Candidate account update"
                       ELSE "Unknown account type."
           IN  /\ tasks' = tasks
               /\ store' = store
               /\ stdout' = Append(stdout, << line >>) ]_vars

\* a Vote account whose body would decode as a Poll arrived: no hand-off
C12_Witness ==
    /\ Len(arrivals) >= 1
    /\ arrivals[Len(arrivals)] = VoteEvent
    /\ stdout[Len(stdout)] = << "Voter account update" >>
    /\ tasks = << >>

\* C13: a classification miss is observed and skipped: the step that handles
\* an event whose data is shorter than 8 bytes, or whose tag is none of
\* the three, writes a line and leaves main in the loop.
C13_MissIsLogged ==
    [][ ( /\ Len(arrivals') = Len(arrivals) + 1
          /\ arrivals'[Len(arrivals')].some
          /\ \/ Len(arrivals'[Len(arrivals')].val) < DISCRIMINATOR_LEN
             \/ SubSeq(arrivals'[Len(arrivals')].val, 1, DISCRIMINATOR_LEN)
                    \notin Discriminators )
        => ( /\ Len(stdout') > Len(stdout)
             /\ tasks' = tasks
             /\ pc' = "select" ) ]_vars

\* C14: a failed upsert is not fatal. The step that writes the failure line
\* moves exactly one pending write to failed, changes no row, no other write
\* and nothing of main; a write that has run, failed or not, never runs again.
C14_PersistenceFailureNotFatal ==
    [][ /\ ( /\ Len(stderr') = Len(stderr) + 1
             /\ stderr'[Len(stderr')] = << "DB insert failed: " >> )
            => ( /\ store' = store
                 /\ << pc, stream, reason, arrivals, origin, stdout, exit >>'
                      = << pc, stream, reason, arrivals, origin, stdout, exit >>
                 /\ Len(tasks') = Len(tasks)
                 /\ \E k \in Pending :
                       /\ tasks'[k] = [tasks[k] EXCEPT !.status = "failed"]
                       /\ \A j \in 1..Len(tasks) : j # k => tasks'[j] = tasks[j] )
        /\ \A k \in 1..Len(tasks) :
              tasks[k].status # "pending" => tasks'[k] = tasks[k] ]_vars

\* one write failed; the loop went on and a later record was written
C14_Witness ==
    /\ Len(tasks) = 2
    /\ tasks[1].status = "failed"
    /\ tasks[2].status = "done"
    /\ origin[2] = 2
    /\ Cardinality(store) = 1
    /\ stderr = << << "DB insert failed: " >> >>
    /\ exit = "none"

\* Running, Stopping, Stopped as positions of main: in select!, awaiting
\* client.shutdown(), returned after that; 0 is the set-up before select!
Phase ==
    CASE pc = "select" -> 1
      [] pc = "shutdown" -> 2
      [] pc = "exited" /\ reason # "none" -> 3
      [] OTHER -> 0

\* C15: once main is in select! it stays there until the interrupt or the
\* end of the stream, then goes Running, Stopping, Stopped, one phase at a
\* time and never back. Stopping is entered by one of the two triggers only,
\* with the stream dropped and client.shutdown() called; Stopped is reached
\* only with the loop left and the stream dropped; the phases are reached.
C15_Lifecycle ==
    /\ [][ /\ Phase' >= Phase
           /\ Phase' <= Phase + 1
           /\ (Phase = 1 /\ Phase' = 2)
                 => /\ reason = "none"
                    /\ \/ reason' = "interrupt" /\ sigint
                       \/ reason' = "closed"
                    /\ stream' = "dropped"
                    /\ shutdown_calls' = shutdown_calls + 1
           /\ Phase >= 2 => /\ reason' = reason
                            /\ stream' = stream
                            /\ shutdown_calls' = shutdown_calls ]_vars
    /\ [](Phase = 1 => reason = "none" /\ stream = "open" /\ shutdown_calls = 0)
    /\ [](Phase >= 2 => reason # "none" /\ stream = "dropped" /\ shutdown_calls = 1)
    /\ ((sigint \/ Phase = 2) ~> (Phase = 3))

\* the stream ended after an event, and main went through to its end
C15_Witness ==
    /\ Phase = 3
    /\ reason = "closed"
    /\ Len(arrivals) >= 1
    /\ stream = "dropped"
    /\ shutdown_calls = 1
    /\ exit = "ok"

\* C16: after shutdown has begun, by either branch of select!, no event is
\* pulled, classified, decoded or handed over: arrivals, the hand-offs and
\* the event lines of stdout stay as they are.
C16_NoEventAfterShutdownBegan ==
    [][ reason # "none"
        => /\ arrivals' = arrivals
           /\ origin' = origin
           /\ Len(tasks') = Len(tasks)
           /\ \A k \in 1..Len(tasks) : tasks'[k].poll = tasks[k].poll
           /\ \/ stdout' = stdout
              \/ stdout' = Append(stdout, << "Good Bye" >>) ]_vars

\* main ended on an interrupt with events still to come from the source
C16_Witness ==
    /\ pc = "exited"
    /\ reason = "interrupt"
    /\ Len(arrivals) = 1
    /\ Len(arrivals) < MaxEvents

\* C17: cancellation takes effect only while main waits in select!. Whatever
\* the moment the interrupt arrives, every event pulled is handled to its
\* end: every Poll event that decodes has its hand-off and its last line
\* printed, and the step that takes the interrupt handles no event.
C17_CooperativeCancellation ==
    /\ [](\A i \in 1..Len(arrivals) :
             Decodable(arrivals[i]) => \E k \in 1..Len(origin) : origin[k] = i)
    /\ [](Cardinality({ n \in 1..Len(stdout) : stdout[n] = << "started decoding" >> })
            = Cardinality({ i \in 1..Len(arrivals) : PollTagged(arrivals[i]) }))
    /\ [](Cardinality({ n \in 1..Len(stdout) : stdout[n][1] = "Winner: " })
            = Len(tasks))
    /\ [][ (reason = "none" /\ reason' = "interrupt")
           => /\ pc = "select"
              /\ sigint
              /\ arrivals' = arrivals
              /\ tasks' = tasks
              /\ origin' = origin ]_vars

\* the interrupt was ready before the last event was pulled; that event was
\* decoded and handed over, and then the interrupt took effect
C17_Witness ==
    /\ reason = "interrupt"
    /\ Len(arrivals) = 2
    /\ ~ PollTagged(arrivals[1])
    /\ Decodable(arrivals[2])
    /\ Len(tasks) = 1
    /\ origin[1] = 2
    /\ stdout[Len(stdout) - 1][1] = "Winner: "

\* C18: writes handed over before shutdown began are neither cancelled nor
\* waited for: the steps of the shutdown leave them as they are, the end of
\* client.shutdown() never waits for them, and a pending write can still run.
C18_ShutdownIgnoresPendingWrites ==
    /\ [][ (pc \in { "select", "shutdown" } /\ pc' # pc)
           => (tasks' = tasks /\ store' = store) ]_vars
    /\ [](pc = "select" => ENABLED StreamEnd)
    /\ [](pc = "select" /\ sigint => ENABLED SelectCtrlC)
    /\ [](pc = "shutdown" => ENABLED ShutdownOk)
    /\ [](Pending # { } => ENABLED UpsertOk)

\* main printed its last line and returned Ok with a write still pending
C18_Witness ==
    /\ pc = "exited"
    /\ exit = "ok"
    /\ stdout[Len(stdout)] = << "Good Bye" >>
    /\ Pending # { }

-----------------------------------------------------------------------------
(* Trailing bytes (SpecDecode) and the poll_id key (SpecKey) *)

\* C19: the decoder ignores trailing bytes: a valid Poll body followed by any
\* extra bytes decodes, and to the same eight field values as the body alone.
C19_TrailingBytesIgnored ==
    (ret.called /\ ValidPoll(arg.poll) /\ arg.cut = 0 /\ arg.extra # << >>)
        => /\ ret.val = Some(arg.poll)
           /\ ret.val = try_from_anchor_bytes(encode_poll(arg.poll))

\* a body with two bytes after candidate_winner, decoded
C19_Witness ==
    /\ ret.called
    /\ arg = [poll |-> PollScenario, cut |-> 0, extra |-> << 255, 65 >>]
    /\ Len(BodyOf(arg)) = Len(encode_poll(PollScenario)) + 2
    /\ ret.val = Some(PollScenario)

\* C20: the u64 to i64 conversion of poll_id is one-to-one over the whole
\* unsigned range: the 64 bits are kept, a value of 2^63 or more becomes
\* negative, so polls with different poll_id get different keys and two
\* rows, each with its own fields, and polls with one poll_id share a row.
C20_PollIdKeyInjective ==
    ret.called
        => LET first  == ret.val.first
               second == ret.val.second
               rows   == ret.val.rows
           IN  /\ \A i \in 2..U64_LEN : first.poll_id[i] = arg[1][i]
               /\ first.poll_id[1] \in -128..127
               /\ (first.poll_id[1] - arg[1][1]) % 256 = 0
               /\ arg[1][1] >= 128 <=> first.poll_id[1] < 0
               /\ arg[1] # arg[2]
                    => /\ first.poll_id # second.poll_id
                       /\ Cardinality(rows) = 2
                       /\ \E r \in rows : /\ r.poll_id = first.poll_id
                                          /\ NonKeyFields(r) = NonKeyFields(first)
                       /\ \E r \in rows : /\ r.poll_id = second.poll_id
                                          /\ NonKeyFields(r) = NonKeyFields(second)
               /\ arg[1] = arg[2]
                    => /\ first.poll_id = second.poll_id
                       /\ Cardinality(rows) = 1

\* poll_id 2^63 + 7 and poll_id 7: two keys, two rows
C20_Witness ==
    /\ ret.called
    /\ arg = << << 128, 0, 0, 0, 0, 0, 0, 7 >>, << 0, 0, 0, 0, 0, 0, 0, 7 >> >>
    /\ ret.val.first.poll_id = << -128, 0, 0, 0, 0, 0, 0, 7 >>
    /\ ret.val.second.poll_id = << 0, 0, 0, 0, 0, 0, 0, 7 >>
    /\ Cardinality(ret.val.rows) = 2

=============================================================================
